---- MODULE Spec2Model ----
(***************************************************************************)
(* A model of the adb socket family types of crates/lib/adb/src/socket.rs  *)
(* and of the code that #[derive(AdbSocketFamily)] generates for them      *)
(* (crates/macro/derive/src/adb_socket_family.rs).                         *)
(*                                                                         *)
(* Text is a sequence of one-character strings.  A u16 or smaller number   *)
(* is an integer; a u32 is a pair <<hi, lo>> of 16-bit limbs, so that the  *)
(* whole 32-bit range and its overflow are represented exactly.            *)
(***************************************************************************)
EXTENDS Integers, Sequences, FiniteSets, TLC

VARIABLES pc, input, value, ty, result, output, calls

vars == <<pc, input, value, ty, result, output, calls>>

(***************************************************************************)
(* Text helpers                                                            *)
(***************************************************************************)

\* The characters of a string literal, as a sequence of one-character strings.
Chars(s) == [i \in 1..Len(s) |-> SubSeq(s, i, i)]

\* s[from..] (1-based); the empty text when from is past the end.
Drop(s, from) == SubSeq(s, from, Len(s))

\* str::strip_prefix
StartsWith(s, p) == Len(s) >= Len(p) /\ SubSeq(s, 1, Len(p)) = p

\* Position of the first occurrence of character c in s, 0 when there is none.
RECURSIVE FindFrom(_, _, _)
FindFrom(s, c, i) ==
    IF i > Len(s) THEN 0
    ELSE IF s[i] = c THEN i
    ELSE FindFrom(s, c, i + 1)

\* str::split_once(c): [found, left, right]
split_once(s, c) ==
    LET i == FindFrom(s, c, 1) IN
    IF i = 0 THEN [found |-> FALSE, left |-> s, right |-> <<>>]
    ELSE [found |-> TRUE, left |-> SubSeq(s, 1, i - 1), right |-> Drop(s, i + 1)]

LowerAlphabet == Chars("abcdefghijklmnopqrstuvwxyz")
UpperAlphabet == Chars("ABCDEFGHIJKLMNOPQRSTUVWXYZ")

\* char::to_lowercase on ASCII
LowerChar(c) ==
    IF \E i \in 1..26 : UpperAlphabet[i] = c
    THEN LowerAlphabet[CHOOSE i \in 1..26 : UpperAlphabet[i] = c]
    ELSE c

\* str::to_lowercase
to_lowercase(s) == [i \in 1..Len(s) |-> LowerChar(s[i])]

(***************************************************************************)
(* Numbers                                                                 *)
(***************************************************************************)

U8Max == 255
U16Max == 65535
LimbBase == 65536

HexDigits == Chars("0123456789abcdef")
UpperHexDigits == Chars("0123456789ABCDEF")

\* char::to_digit(radix): the digit's value, or -1 when c is no digit of the radix.
to_digit(c, radix) ==
    IF \E i \in 1..radix : HexDigits[i] = c
    THEN (CHOOSE i \in 1..radix : HexDigits[i] = c) - 1
    ELSE IF \E i \in 1..radix : UpperHexDigits[i] = c
    THEN (CHOOSE i \in 1..radix : UpperHexDigits[i] = c) - 1
    ELSE -1

\* A u32 from its limbs.
U32(hi, lo) == <<hi, lo>>
U32Max == U32(U16Max, U16Max)

\* checked_mul(10) then checked_add(d) on a u32: [ok, val]
U32MulAdd(n, d) ==
    LET lo == n[2] * 10 + d
        hi == n[1] * 10 + (lo \div LimbBase)
    IN  IF hi > U16Max THEN [ok |-> FALSE, val |-> n]
        ELSE [ok |-> TRUE, val |-> U32(hi, lo % LimbBase)]

\* n / 10 and n % 10 of a u32
U32DivMod10(n) ==
    LET r1 == n[1] % 10
        mid == r1 * LimbBase + n[2]
    IN  [quot |-> U32(n[1] \div 10, mid \div 10), rem |-> mid % 10]

\* Display of an integer below 2^31 in the given radix (no leading zeros).
RECURSIVE FmtInt(_, _)
FmtInt(n, radix) ==
    IF n < radix THEN <<HexDigits[n + 1]>>
    ELSE FmtInt(n \div radix, radix) \o <<HexDigits[(n % radix) + 1]>>

\* Display of a u32.
RECURSIVE FmtU32(_)
FmtU32(n) ==
    LET dm == U32DivMod10(n) IN
    IF n[1] = 0 /\ n[2] < 10 THEN <<HexDigits[n[2] + 1]>>
    ELSE FmtU32(dm.quot) \o <<HexDigits[dm.rem + 1]>>

\* The digit loop of <u16 as FromStr>::from_str: [ok, val, kind]
RECURSIVE ParseDigits16(_, _, _)
ParseDigits16(s, i, acc) ==
    IF i > Len(s) THEN [ok |-> TRUE, val |-> acc, kind |-> "None"]
    ELSE LET d == to_digit(s[i], 10) IN
         IF d < 0 THEN [ok |-> FALSE, val |-> 0, kind |-> "InvalidDigit"]
         ELSE IF acc * 10 + d > U16Max
              THEN [ok |-> FALSE, val |-> 0, kind |-> "PosOverflow"]
              ELSE ParseDigits16(s, i + 1, acc * 10 + d)

\* The digit loop of <u32 as FromStr>::from_str: [ok, val, kind]
RECURSIVE ParseDigits32(_, _, _)
ParseDigits32(s, i, acc) ==
    IF i > Len(s) THEN [ok |-> TRUE, val |-> acc, kind |-> "None"]
    ELSE LET d == to_digit(s[i], 10) IN
         IF d < 0 THEN [ok |-> FALSE, val |-> U32(0, 0), kind |-> "InvalidDigit"]
         ELSE LET m == U32MulAdd(acc, d) IN
              IF ~m.ok THEN [ok |-> FALSE, val |-> U32(0, 0), kind |-> "PosOverflow"]
              ELSE ParseDigits32(s, i + 1, m.val)

\* The sign handling of from_str for an unsigned type: the first digit's
\* index, 0 for an empty text, -1 for a lone sign.
FirstDigit(s) ==
    IF Len(s) = 0 THEN 0
    ELSE IF s[1] \in {"+", "-"} /\ Len(s) = 1 THEN -1
    ELSE IF s[1] = "+" THEN 2
    ELSE 1

\* str::parse::<u16>()
parse_u16(s) ==
    LET f == FirstDigit(s) IN
    IF f = 0 THEN [ok |-> FALSE, val |-> 0, kind |-> "Empty"]
    ELSE IF f < 0 THEN [ok |-> FALSE, val |-> 0, kind |-> "InvalidDigit"]
    ELSE ParseDigits16(s, f, 0)

\* str::parse::<u32>()
parse_u32(s) ==
    LET f == FirstDigit(s) IN
    IF f = 0 THEN [ok |-> FALSE, val |-> U32(0, 0), kind |-> "Empty"]
    ELSE IF f < 0 THEN [ok |-> FALSE, val |-> U32(0, 0), kind |-> "InvalidDigit"]
    ELSE ParseDigits32(s, f, U32(0, 0))

(***************************************************************************)
(* std::net address parsing and display, as the calls in socket.rs use it  *)
(***************************************************************************)

NoMaxDigits == 0

\* A parser's failure at position pos.
Fail(pos) == [ok |-> FALSE, val |-> <<>>, pos |-> pos]

\* The digit loop of Parser::read_number(radix, max_digits, _) into an
\* unsigned type of maximum max_val <= U16Max: [ok, val, pos, count].
RECURSIVE ReadDigits(_, _, _, _, _, _, _)
ReadDigitsStep(s, pos, radix, max_digits, max_val, acc, count, d) ==
    IF d < 0 THEN [ok |-> TRUE, val |-> acc, pos |-> pos, count |-> count]
    ELSE IF acc * radix + d > max_val
         THEN [ok |-> FALSE, val |-> 0, pos |-> pos, count |-> count]
    ELSE IF max_digits # NoMaxDigits /\ count + 1 > max_digits
         THEN [ok |-> FALSE, val |-> 0, pos |-> pos, count |-> count]
    ELSE ReadDigits(s, pos + 1, radix, max_digits, max_val, acc * radix + d, count + 1)

ReadDigits(s, pos, radix, max_digits, max_val, acc, count) ==
    ReadDigitsStep(s, pos, radix, max_digits, max_val, acc, count,
                   IF pos <= Len(s) THEN to_digit(s[pos], radix) ELSE -1)

\* The end of Parser::read_number: no digit, or a zero prefix that is not
\* allowed, fails.
ReadNumberEnd(s, pos, allow_zero_prefix, r) ==
    IF ~r.ok \/ r.count = 0 THEN Fail(pos)
    ELSE IF ~allow_zero_prefix /\ s[pos] = "0" /\ r.count > 1 THEN Fail(pos)
    ELSE [ok |-> TRUE, val |-> r.val, pos |-> r.pos]

\* Parser::read_number(radix, max_digits, allow_zero_prefix): [ok, val, pos]
read_number(s, pos, radix, max_digits, allow_zero_prefix, max_val) ==
    ReadNumberEnd(s, pos, allow_zero_prefix,
                  ReadDigits(s, pos, radix, max_digits, max_val, 0, 0))

\* Parser::read_number(10, None, true) into a u32: [ok, val, pos].
RECURSIVE ReadDigits32(_, _, _, _)
ReadDigits32Step(s, pos, acc, count, m) ==
    IF ~m.ok THEN Fail(pos)
    ELSE ReadDigits32(s, pos + 1, m.val, count + 1)

ReadDigits32(s, pos, acc, count) ==
    IF pos > Len(s) \/ to_digit(s[pos], 10) < 0
    THEN [ok |-> count > 0, val |-> acc, pos |-> pos]
    ELSE ReadDigits32Step(s, pos, acc, count, U32MulAdd(acc, to_digit(s[pos], 10)))

\* Parser::read_given_char
read_given_char(s, pos, c) == pos <= Len(s) /\ s[pos] = c

\* Parser::read_ipv4_addr: four decimal octets of at most three digits, no
\* leading zero, separated by '.': [ok, val, pos].
RECURSIVE ReadOctets(_, _, _, _)
ReadOctetsStep(s, pos, i, acc, n) ==
    IF ~n.ok THEN Fail(pos)
    ELSE ReadOctets(s, n.pos, i + 1, Append(acc, n.val))

ReadOctets(s, pos, i, acc) ==
    IF i = 4 THEN [ok |-> TRUE, val |-> acc, pos |-> pos]
    ELSE IF i > 0 /\ ~read_given_char(s, pos, ".") THEN Fail(pos)
    ELSE ReadOctetsStep(s, pos, i, acc,
             read_number(s, IF i > 0 THEN pos + 1 ELSE pos, 10, 3, FALSE, U8Max))

read_ipv4_addr(s, pos) == ReadOctets(s, pos, 0, <<>>)

\* read_groups of Parser::read_ipv6_addr: reads up to limit 16-bit groups from
\* pos, the last two possibly as an embedded IPv4 address:
\* [n, ipv4, groups, pos].  v4 and g are the two reads tried for group i.
RECURSIVE read_groups(_, _, _, _, _)
ReadGroupsStep(s, pos, limit, i, acc, v4, g) ==
    IF v4.ok
    THEN [n |-> i + 2, ipv4 |-> TRUE, pos |-> v4.pos,
          groups |-> acc \o <<v4.val[1] * 256 + v4.val[2], v4.val[3] * 256 + v4.val[4]>>]
    ELSE IF g.ok THEN read_groups(s, g.pos, limit, i + 1, Append(acc, g.val))
    ELSE [n |-> i, ipv4 |-> FALSE, groups |-> acc, pos |-> pos]

read_groups(s, pos, limit, i, acc) ==
    IF i >= limit THEN [n |-> limit, ipv4 |-> FALSE, groups |-> acc, pos |-> pos]
    ELSE IF i > 0 /\ ~read_given_char(s, pos, ":")
         THEN [n |-> i, ipv4 |-> FALSE, groups |-> acc, pos |-> pos]
    ELSE ReadGroupsStep(s, pos, limit, i, acc,
             IF i < limit - 1
             THEN read_ipv4_addr(s, IF i > 0 THEN pos + 1 ELSE pos)
             ELSE Fail(pos),
             read_number(s, IF i > 0 THEN pos + 1 ELSE pos, 16, 4, TRUE, U16Max))

Zeros(n) == [i \in 1..n |-> 0]

\* The end of Parser::read_ipv6_addr: the head and the tail around "::".
ReadIpv6Tail(head, tail) ==
    [ok |-> TRUE, pos |-> tail.pos,
     val |-> head.groups \o Zeros(8 - head.n - tail.n) \o tail.groups]

\* Parser::read_ipv6_addr after the head was read.
ReadIpv6Head(s, pos, head) ==
    IF head.n = 8 THEN [ok |-> TRUE, val |-> head.groups, pos |-> head.pos]
    ELSE IF head.ipv4 THEN Fail(pos)
    ELSE IF ~(read_given_char(s, head.pos, ":") /\ read_given_char(s, head.pos + 1, ":"))
         THEN Fail(pos)
    ELSE ReadIpv6Tail(head, read_groups(s, head.pos + 2, 8 - (head.n + 1), 0, <<>>))

\* Parser::read_ipv6_addr: [ok, val, pos], val the eight segments.
read_ipv6_addr(s, pos) == ReadIpv6Head(s, pos, read_groups(s, pos, 8, 0, <<>>))

\* Parser::read_port: ':' then a u16 in decimal: [ok, val, pos].
read_port(s, pos) ==
    IF ~read_given_char(s, pos, ":") THEN Fail(pos)
    ELSE read_number(s, pos + 1, 10, NoMaxDigits, TRUE, U16Max)

\* Parser::read_scope_id: '%' then a u32 in decimal; the position after it,
\* or pos itself when there is none.
ReadScopeIdEnd(pos, n) == IF n.ok THEN n.pos ELSE pos

read_scope_id(s, pos) ==
    IF ~read_given_char(s, pos, "%") THEN pos
    ELSE ReadScopeIdEnd(pos, ReadDigits32(s, pos + 1, U32(0, 0), 0))

IpV4(octets) == [v |-> 4, a |-> octets]
IpV6(segments) == [v |-> 6, a |-> segments]

\* Parser::parse_with: the read must succeed and leave no text.
parse_with(s, r) ==
    IF r.ok /\ r.pos = Len(s) + 1
    THEN [ok |-> TRUE, val |-> r.val]
    ELSE [ok |-> FALSE, val |-> <<>>]

\* str::parse::<Ipv4Addr>(): [ok, val]
parse_Ipv4Addr(s) ==
    IF Len(s) > 15 THEN [ok |-> FALSE, val |-> <<>>]
    ELSE parse_with(s, read_ipv4_addr(s, 1))

\* str::parse::<Ipv6Addr>(): [ok, val]
parse_Ipv6Addr(s) == parse_with(s, read_ipv6_addr(s, 1))

\* The end of a socket address read: an address and a port,
\* val = [ip, port].
SocketAddrOf(ip, port) ==
    IF ip.ok /\ port.ok
    THEN [ok |-> TRUE, val |-> [ip |-> ip.val, port |-> port.val], pos |-> port.pos]
    ELSE Fail(1)

\* Parser::read_socket_addr_v4
ReadSocketAddrV4Port(s, ip) ==
    IF ~ip.ok THEN Fail(1)
    ELSE SocketAddrOf([ok |-> TRUE, val |-> IpV4(ip.val)], read_port(s, ip.pos))

read_socket_addr_v4(s) == ReadSocketAddrV4Port(s, read_ipv4_addr(s, 1))

\* Parser::read_socket_addr_v6: '[', the address, an optional scope id, ']'
\* and the port.
ReadSocketAddrV6Close(s, ip, close) ==
    IF ~read_given_char(s, close, "]") THEN Fail(1)
    ELSE SocketAddrOf([ok |-> TRUE, val |-> IpV6(ip.val)], read_port(s, close + 1))

ReadSocketAddrV6Scope(s, ip) ==
    IF ~ip.ok THEN Fail(1)
    ELSE ReadSocketAddrV6Close(s, ip, read_scope_id(s, ip.pos))

read_socket_addr_v6(s) ==
    IF ~read_given_char(s, 1, "[") THEN Fail(1)
    ELSE ReadSocketAddrV6Scope(s, read_ipv6_addr(s, 2))

\* Parser::read_socket_addr: the V4 form, or else the V6 form.
ReadSocketAddrOr(s, a4) == IF a4.ok THEN a4 ELSE read_socket_addr_v6(s)

\* str::parse::<SocketAddr>(): [ok, val], val = [ip, port]
parse_SocketAddr(s) == parse_with(s, ReadSocketAddrOr(s, read_socket_addr_v4(s)))

\* Text pieces joined by a separator character.
RECURSIVE Join(_, _)
Join(parts, sep) ==
    IF Len(parts) = 0 THEN <<>>
    ELSE IF Len(parts) = 1 THEN parts[1]
    ELSE parts[1] \o <<sep>> \o Join(Tail(parts), sep)

\* <Ipv4Addr as Display>::fmt
fmt_Ipv4Addr(octets) == Join([i \in 1..4 |-> FmtInt(octets[i], 10)], ".")

\* fmt_subslice of <Ipv6Addr as Display>::fmt: hex groups joined by ':'
fmt_subslice(segments) == Join([i \in 1..Len(segments) |-> FmtInt(segments[i], 16)], ":")

\* Length of the run of zero segments starting at index i.
RECURSIVE ZeroRun(_, _)
ZeroRun(segments, i) ==
    IF i > Len(segments) \/ segments[i] # 0 THEN 0
    ELSE 1 + ZeroRun(segments, i + 1)

\* The length of the longest run of zero segments.
LongestZeroRun(segments) ==
    CHOOSE n \in 0..8 :
        /\ \E i \in 1..8 : ZeroRun(segments, i) = n
        /\ \A i \in 1..8 : ZeroRun(segments, i) <= n

\* The first index at which a run of that length starts.
FirstZeroRun(segments, longest) ==
    CHOOSE i \in 1..8 :
        /\ ZeroRun(segments, i) = longest
        /\ \A j \in 1..(i - 1) : ZeroRun(segments, j) < longest

\* The hex groups with the run of zero groups at start written "::".
FmtCompressed(segments, longest, start) ==
    IF longest > 1
    THEN fmt_subslice(SubSeq(segments, 1, start - 1)) \o Chars("::")
         \o fmt_subslice(SubSeq(segments, start + longest, 8))
    ELSE fmt_subslice(segments)

FmtLongest(segments, longest) ==
    FmtCompressed(segments, longest, FirstZeroRun(segments, longest))

\* <Ipv6Addr as Display>::fmt: the IPv4-mapped form, or the hex groups with
\* the first longest run of two or more zero groups written "::".
fmt_Ipv6Addr(segments) ==
    IF SubSeq(segments, 1, 6) = <<0, 0, 0, 0, 0, U16Max>>
    THEN Chars("::ffff:") \o fmt_Ipv4Addr(<<segments[7] \div 256, segments[7] % 256,
                                           segments[8] \div 256, segments[8] % 256>>)
    ELSE FmtLongest(segments, LongestZeroRun(segments))

(***************************************************************************)
(* Values, results and errors                                              *)
(***************************************************************************)

\* Option<T>: the empty sequence is None, a one-element sequence is Some.
None == <<>>
Some(x) == <<x>>

\* AdbError::Parse { value, source_type, target_type, source }; source holds
\* the kind of the wrapped error, when there is one.
AdbError_Parse(v, target, src) ==
    [value |-> v, source_type |-> "&str", target_type |-> target, source |-> src]

NoError == AdbError_Parse(<<>>, "", None)

Ok(v) == [ok |-> TRUE, val |-> v, err |-> NoError]
Err(e) == [ok |-> FALSE, val |-> <<>>, err |-> e]

\* A byte that is no valid UTF-8 (an OsString may hold one, a String never
\* does), and U+FFFD REPLACEMENT CHARACTER, each one element of a text.
InvalidByte == "<FF>"
ReplacementChar == "<U+FFFD>"

\* Path::display(): the lossy conversion of the path's bytes to UTF-8.
Path_display(p) ==
    [i \in 1..Len(p) |-> IF p[i] = InvalidByte THEN ReplacementChar ELSE p[i]]

(***************************************************************************)
(* Tcp                                                                     *)
(***************************************************************************)

\* struct Tcp { ip: Option<IpAddr>, port: Option<u16> }
Tcp(ip, port) == [ip |-> ip, port |-> port]

Tcp_new(host, port) == Tcp(Some(host), Some(port))
Tcp_from_ip(host) == Tcp(Some(host), None)
Tcp_from_ipv4(host) == Tcp(Some(IpV4(host)), None)
Tcp_from_ipv6(host) == Tcp(Some(IpV6(host)), None)
Tcp_from_port(port) == Tcp(None, Some(port))

\* Display for Tcp writing an IPv6 address without its brackets.
Tcp_fmt_NoBrackets(self) ==
    IF self.ip = None
    THEN IF self.port = None THEN <<>> ELSE Chars("tcp:") \o FmtInt(self.port[1], 10)
    ELSE Chars("tcp:")
         \o (IF self.ip[1].v = 4 THEN fmt_Ipv4Addr(self.ip[1].a)
             ELSE fmt_Ipv6Addr(self.ip[1].a))
         \o (IF self.port = None THEN <<>> ELSE Chars(":") \o FmtInt(self.port[1], 10))

\* impl Display for Tcp
Tcp_fmt(self) ==
    IF self.ip # None /\ self.port # None
    THEN IF self.ip[1].v = 4
         THEN Chars("tcp:") \o fmt_Ipv4Addr(self.ip[1].a) \o Chars(":")
              \o FmtInt(self.port[1], 10)
         ELSE Chars("tcp:[") \o fmt_Ipv6Addr(self.ip[1].a) \o Chars("]:")
              \o FmtInt(self.port[1], 10)
    ELSE IF self.ip # None
    THEN IF self.ip[1].v = 4
         THEN Chars("tcp:") \o fmt_Ipv4Addr(self.ip[1].a)
         ELSE Chars("tcp:[") \o fmt_Ipv6Addr(self.ip[1].a) \o Chars("]")
    ELSE IF self.port # None
    THEN Chars("tcp:") \o FmtInt(self.port[1], 10)
    ELSE <<>>

\* From<SocketAddr> for Tcp
Tcp_from_SocketAddr(addr) == Tcp_new(addr.ip, addr.port)

\* The bracket branch reporting the text with its brackets.
TcpBracketed_WholeValue(inner, v6) ==
    IF v6.ok THEN Ok(Tcp_from_ipv6(v6.val))
    ELSE Err(AdbError_Parse(<<"[">> \o inner \o <<"]">>, "Ipv6Addr", Some("AddrParseError")))

\* The last branch of Tcp::from_str: strip one '[' and one ']' and parse the
\* interior as an Ipv6Addr.
TcpBracketed(inner, v6) ==
    IF v6.ok THEN Ok(Tcp_from_ipv6(v6.val))
    ELSE Err(AdbError_Parse(inner, "Ipv6Addr", Some("AddrParseError")))

\* The last branch of Tcp::from_str also taking an interior that has no
\* brackets around it.
TcpStripped_BareIpv6(val) ==
    IF Len(val) >= 2 /\ val[1] = "[" /\ val[Len(val)] = "]"
    THEN TcpBracketed(SubSeq(val, 2, Len(val) - 1),
                      parse_Ipv6Addr(SubSeq(val, 2, Len(val) - 1)))
    ELSE TcpBracketed(val, parse_Ipv6Addr(val))

TcpStripped(val) ==
    IF Len(val) >= 2 /\ val[1] = "[" /\ val[Len(val)] = "]"
    THEN TcpBracketed(SubSeq(val, 2, Len(val) - 1),
                      parse_Ipv6Addr(SubSeq(val, 2, Len(val) - 1)))
    ELSE Err(AdbError_Parse(val, "Ipv6Addr", None))

\* The branches of Tcp::from_str on the text after "tcp:", in their order.
TcpIpv4(val, v4) ==
    IF v4.ok THEN Ok(Tcp_from_ipv4(v4.val)) ELSE TcpStripped(val)

TcpSocketAddr(val, addr) ==
    IF addr.ok THEN Ok(Tcp_from_SocketAddr(addr.val))
    ELSE TcpIpv4(val, parse_Ipv4Addr(val))

TcpPort(val, port) ==
    IF port.ok THEN Ok(Tcp_from_port(port.val))
    ELSE TcpSocketAddr(val, parse_SocketAddr(val))

TcpValue(val) == TcpPort(val, parse_u16(val))

\* Tcp::from_str without the check for an empty remainder: "tcp:" would
\* yield the value with ip and port both absent.
Tcp_from_str_EmptyRemainder(s) ==
    IF ~StartsWith(s, Chars("tcp:")) THEN Err(AdbError_Parse(s, "Tcp", None))
    ELSE IF Drop(s, 5) = <<>> THEN Ok(Tcp(None, None))
    ELSE TcpValue(Drop(s, 5))

\* impl FromStr for Tcp
Tcp_from_str(s) ==
    IF ~StartsWith(s, Chars("tcp:")) \/ Drop(s, 5) = <<>>
    THEN Err(AdbError_Parse(s, "Tcp", None))
    ELSE TcpValue(Drop(s, 5))

(***************************************************************************)
(* Tcp::from_host and Tcp::resolve                                         *)
(***************************************************************************)

\* str::rsplit_once(c): [found, left, right], split at the last c
RECURSIVE FindLastFrom(_, _, _)
FindLastFrom(s, c, i) ==
    IF i = 0 THEN 0
    ELSE IF s[i] = c THEN i
    ELSE FindLastFrom(s, c, i - 1)

RSplitAt(s, i) ==
    IF i = 0 THEN [found |-> FALSE, left |-> s, right |-> <<>>]
    ELSE [found |-> TRUE, left |-> SubSeq(s, 1, i - 1), right |-> Drop(s, i + 1)]

rsplit_once(s, c) == RSplitAt(s, FindLastFrom(s, c, Len(s)))

\* What the lookup of a host name by the operating system answers: a
\* failure, or the addresses of the host.
LookupFailed == [ok |-> FALSE, ips |-> <<>>]
LookupFound(ips) == [ok |-> TRUE, ips |-> ips]

\* io::Result<vec::IntoIter<SocketAddr>>
AddrsOk(addrs) == [ok |-> TRUE, val |-> addrs, err |-> "", lookup |-> FALSE]
AddrsErr(e) == [ok |-> FALSE, val |-> <<>>, err |-> e, lookup |-> FALSE]
Looked(r) == [r EXCEPT !.lookup = TRUE]

\* <str as ToSocketAddrs>::to_socket_addrs: the text is a socket address, or
\* it is split at its last ':' into a host, which is looked up, and a port.
\* lookup tells whether the host was handed to the operating system.
LookupHost(sp, port, os) ==
    IF ~sp.found THEN AddrsErr("invalid socket address")
    ELSE IF ~port.ok THEN AddrsErr("invalid port value")
    ELSE IF ~os.ok THEN Looked(AddrsErr("failed to lookup address information"))
    ELSE Looked(AddrsOk([i \in 1..Len(os.ips) |-> [ip |-> os.ips[i], port |-> port.val]]))

ToSocketAddrsSplit(sp, os) == LookupHost(sp, parse_u16(sp.right), os)

ToSocketAddrsParsed(s, addr, os) ==
    IF addr.ok THEN AddrsOk(<<addr.val>>)
    ELSE ToSocketAddrsSplit(rsplit_once(s, ":"), os)

to_socket_addrs(s, os) == ToSocketAddrsParsed(s, parse_SocketAddr(s), os)

\* addrs.find(SocketAddr::is_ipv4).or(first): the first IPv4 address after
\* the first address, or else the first address
RECURSIVE FindIpv4From(_, _)
FindIpv4From(addrs, i) ==
    IF i > Len(addrs) THEN addrs[1]
    ELSE IF addrs[i].ip.v = 4 THEN addrs[i]
    ELSE FindIpv4From(addrs, i + 1)

\* Tcp::resolve taking the first address whatever its family.
Tcp_resolve_First(host, addrs) ==
    IF ~addrs.ok
    THEN Err(AdbError_Parse(host, "std::vec::IntoIter<SocketAddr>", Some(addrs.err)))
    ELSE IF addrs.val = <<>> THEN Err(AdbError_Parse(host, "SocketAddr", None))
    ELSE Ok(Tcp_from_SocketAddr(addrs.val[1]))

\* Tcp::resolve, given what host.to_socket_addrs() returned
Tcp_resolve(host, addrs) ==
    IF ~addrs.ok
    THEN Err(AdbError_Parse(host, "std::vec::IntoIter<SocketAddr>", Some(addrs.err)))
    ELSE IF addrs.val = <<>> THEN Err(AdbError_Parse(host, "SocketAddr", None))
    ELSE IF addrs.val[1].ip.v = 4 THEN Ok(Tcp_from_SocketAddr(addrs.val[1]))
    ELSE Ok(Tcp_from_SocketAddr(FindIpv4From(addrs.val, 2)))

\* The retry handing back its own error when it fails.
FromHostRetried_RetryError(e, tcp) ==
    IF tcp.ok THEN Ok(Tcp(tcp.val.ip, None)) ELSE tcp

\* The retry of Tcp::from_host: the result of resolving "{host}:0" without
\* its port, or else the error e of the first resolution.
FromHostRetried(e, tcp) ==
    IF tcp.ok THEN Ok(Tcp(tcp.val.ip, None)) ELSE Err(e)

(***************************************************************************)
(* DevRaw                                                                  *)
(***************************************************************************)

\* impl Display for DevRaw
DevRaw_fmt(self) == Chars("dev-raw:") \o Path_display(self[1])

\* impl FromStr for DevRaw
DevRaw_from_str(s) ==
    IF StartsWith(s, Chars("dev-raw:"))
    THEN Ok(<<Drop(s, Len(Chars("dev-raw:")) + 1)>>)
    ELSE Err(AdbError_Parse(s, "DevRaw", None))

(***************************************************************************)
(* #[derive(AdbSocketFamily)] on a struct                                  *)
(***************************************************************************)

\* The structs that derive AdbSocketFamily, each with the types of its
\* fields in declaration order.  A value of such a struct is the sequence of
\* its field values.
DerivedStructs == <<"LocalAbstract", "LocalReserved", "LocalFileSystem", "Dev",
                    "Jdwp", "Vsock", "AcceptFd">>

StructFields(ident) ==
    CASE ident = "LocalAbstract" -> <<"String">>
      [] ident = "LocalReserved" -> <<"String">>
      [] ident = "LocalFileSystem" -> <<"PathBuf">>
      [] ident = "Dev" -> <<"PathBuf">>
      [] ident = "Jdwp" -> <<"u32">>
      [] ident = "Vsock" -> <<"u32", "u32">>
      [] ident = "AcceptFd" -> <<"u32">>

\* Display of one field: PathBuf fields through display(), the others through
\* their own Display.
FieldDisplay(fty, v) ==
    CASE fty = "u32" -> FmtU32(v)
      [] fty = "PathBuf" -> Path_display(v)
      [] OTHER -> v

\* The Display impl generated by impl_display: "family:" and the fields
\* joined by ':'.
impl_display(ident, self) ==
    to_lowercase(Chars(ident)) \o Chars(":")
    \o Join([i \in 1..Len(self) |-> FieldDisplay(StructFields(ident)[i], self[i])], ":")

\* rest.parse() reading a numeric field as a magnitude with an optional '-'.
FieldParse_Signed(fty, text) ==
    IF fty # "u32" THEN [ok |-> TRUE, val |-> text, kind |-> "None"]
    ELSE IF Len(text) > 0 /\ text[1] = "-" THEN parse_u32(Tail(text))
    ELSE parse_u32(text)

\* rest.parse() into a field's type: [ok, val, kind]
FieldParse(fty, text) ==
    IF fty = "u32" THEN parse_u32(text)
    ELSE [ok |-> TRUE, val |-> text, kind |-> "None"]

\* The field declarations generated by impl_from_str: every field but the
\* last is split off rest at the next ':', the last field takes all of rest.
RECURSIVE ParseFields(_, _, _, _)
\* The last field refusing a text that has a ':' in it.
ParseLastField_NoColon(fields, i, rest, acc, f) ==
    IF ~f.ok \/ FindFrom(rest, ":", 1) # 0
    THEN Err(AdbError_Parse(rest, fields[i], Some(f.kind)))
    ELSE Ok(Append(acc, f.val))

ParseLastField(fields, i, rest, acc, f) ==
    IF ~f.ok THEN Err(AdbError_Parse(rest, fields[i], Some(f.kind)))
    ELSE Ok(Append(acc, f.val))

\* A field before the last handing on only what precedes the next ':'.
ParseSplitField_DropTail(fields, i, rest, acc, f) ==
    IF ~f.ok THEN Err(AdbError_Parse(rest, fields[i], Some(f.kind)))
    ELSE ParseFields(fields, i + 1, split_once(rest, ":").left, Append(acc, f.val))

ParseSplitField(fields, i, rest, acc, f) ==
    IF ~f.ok THEN Err(AdbError_Parse(rest, fields[i], Some(f.kind)))
    ELSE ParseFields(fields, i + 1, rest, Append(acc, f.val))

ParseNextField(fields, i, rest, acc, sp) ==
    IF ~sp.found THEN Err(AdbError_Parse(rest, fields[i], None))
    ELSE ParseSplitField(fields, i, sp.right, acc, FieldParse(fields[i], sp.left))

ParseFields(fields, i, rest, acc) ==
    IF i < Len(fields)
    THEN ParseNextField(fields, i, rest, acc, split_once(rest, ":"))
    ELSE ParseLastField(fields, i, rest, acc, FieldParse(fields[i], rest))

\* The generated FromStr matching the family name as a prefix of the tag
\* instead of as the whole tag.
ImplFromStrSplit_Prefix(ident, s, sp) ==
    IF sp.found /\ StartsWith(sp.left, to_lowercase(Chars(ident)))
    THEN ParseFields(StructFields(ident), 1, sp.right, <<>>)
    ELSE Err(AdbError_Parse(s, ident, None))

\* The generated FromStr comparing the tag without regard to case.
ImplFromStrSplit_AnyCase(ident, s, sp) ==
    IF sp.found /\ to_lowercase(sp.left) = to_lowercase(Chars(ident))
    THEN ParseFields(StructFields(ident), 1, sp.right, <<>>)
    ELSE Err(AdbError_Parse(s, ident, None))

\* The FromStr impl generated by impl_from_str.
ImplFromStrSplit(ident, s, sp) ==
    IF sp.found /\ sp.left = to_lowercase(Chars(ident))
    THEN ParseFields(StructFields(ident), 1, sp.right, <<>>)
    ELSE Err(AdbError_Parse(s, ident, None))

impl_from_str(ident, s) == ImplFromStrSplit(ident, s, split_once(s, ":"))

(***************************************************************************)
(* The family types and the enum AdbSocketFamilies                         *)
(***************************************************************************)

\* T::from_str for a family type T
from_str(t, s) ==
    CASE t = "Tcp" -> Tcp_from_str(s)
      [] t = "DevRaw" -> DevRaw_from_str(s)
      [] OTHER -> impl_from_str(t, s)

\* <T as Display>::fmt for a family type T
fmt(t, self) ==
    CASE t = "Tcp" -> Tcp_fmt(self)
      [] t = "DevRaw" -> DevRaw_fmt(self)
      [] OTHER -> impl_display(t, self)

\* The variants of enum AdbSocketFamilies in declaration order; each wraps
\* the family type of the same name.
Variants == <<"Tcp", "LocalAbstract", "LocalReserved", "LocalFileSystem", "Dev",
              "DevRaw", "Jdwp", "Vsock", "AcceptFd">>

\* AdbSocketFamilies::V(inner): the variant's name and its payload
Variant(v, inner) == <<v, inner>>
variant_of(u) == u[1]
inner_of(u) == u[2]

\* The from_str arms generated for the enum, from the i-th on: the first
\* variant whose parse succeeds is returned.
RECURSIVE from_str_arms(_, _)
\* An arm that hands on the last member's own error when every member fails.
FromStrArm_MemberError(i, s, r) ==
    IF r.ok THEN Ok(Variant(Variants[i], r.val))
    ELSE IF i = Len(Variants) THEN Err(r.err)
    ELSE from_str_arms(i + 1, s)

FromStrArm(i, s, r) ==
    IF r.ok THEN Ok(Variant(Variants[i], r.val))
    ELSE from_str_arms(i + 1, s)

from_str_arms(i, s) ==
    IF i > Len(Variants) THEN Err(AdbError_Parse(s, "AdbSocketFamilies", None))
    ELSE FromStrArm(i, s, from_str(Variants[i], s))

\* impl FromStr for AdbSocketFamilies (generated)
AdbSocketFamilies_from_str(s) == from_str_arms(1, s)

\* impl Display for AdbSocketFamilies (generated): the active variant's Display
AdbSocketFamilies_fmt(self) == fmt(variant_of(self), inner_of(self))

(***************************************************************************)
(* The texts and values the operations are applied to                      *)
(***************************************************************************)

\* The most pieces a generated remainder is put together from.
MaxParts == 2

\* The family tags of the wire grammar.
Tags == {"tcp", "localabstract", "localreserved", "localfilesystem", "dev",
         "dev-raw", "jdwp", "vsock", "acceptfd"}

\* Pieces of remainders: numerals at and around the u16 and u32 limits,
\* signs, separators, brackets, addresses and plain text.
Pieces == {"1", "65535", "65536", "4294967295", "4294967296", "-1", "+1", ":",
           ":5555", "::1", "[", "[::1]", "127.0.0.1", "a"}

\* All texts put together from at most n pieces.
RECURSIVE Remainders(_)
Remainders(n) ==
    IF n = 0 THEN {<<>>}
    ELSE LET shorter == Remainders(n - 1) IN
         shorter \cup {r \o Chars(q) : r \in shorter, q \in Pieces}

\* The texts of the parse tests of socket.rs, and texts whose tag is absent,
\* misspelt or not followed by ':'.
TestTexts ==
    {"", "tcp:", "tcp:127.0", "tcp:127.0:5555", "tcp:[]", "tcp:[]:5555", "tcp:[:]",
     "tcp:[:5555]", "tcp:5555:", "tcp:::", "tcp:::1", "tcp:::1:5555",
     "tcp:ffff::1:5555", "tcp:1111:2222:3333:4444:5555:6666:7777:8888",
     "tcp:1111:2222:3333:4444:5555:6666:7777:8888:5555", "tcp:256.0.0.0",
     "tcp:256.-1.0.0", "tcp:[gggg::]", "tcp:[::gggg]", "tcp:-1", "tcp:65536",
     "tcp:256.0.0.0:-1", "tcp:256.0.0.0:5555", "tcp:256.0.0.0:65536",
     "tcp:256.-1.0.0:5555", "tcp:[gggg::]:5555", "tcp:[::gggg]:5555", "tcp:abcd",
     "tcp:a.b.c.d", "tcp:a.b.c.d:p",
     "tcp:5555", "tcp:127.0.0.1", "tcp:[::1]", "tcp:127.0.0.1:5555", "tcp:[::1]:5555",
     "tcp:127.0.0.1:65535", "tcp:127.0.0.1:65536", "tcp:[::1]:65535",
     "tcp:[::1]:65536", "tcp:[::ffff:1.2.3.4]", "tcp:[1::2]:0", "tcp:[[::1]]",
     "tcp:[::1%1]:5555", "tcp:[1111:2222:3333:4444:5555:6666:7777:8888]",
     "tcp:1::", "tcp:1::2", "tcp:::ffff:1.2.3.4", "tcp:::1:65536",
     "localabstract:socket", "localreserved:socket",
     "localfilesystem:/path/to/socket", "dev:/dev/tty", "dev-raw:/dev/tty",
     "jdwp:1234", "jdwp", "jdwp:", "jdwp:-1", "jdwp:4294967296", "jdwp:4294967295",
     "vsock:1:2", "vsock", "vsock:", "vsock:1", "vsock::1", "vsock:1:", "vsock:-1",
     "vsock:-1:-1", "vsock:1:4294967296", "vsock:4294967296:2",
     "vsock:4294967296:4294967296", "vsock:1:4294967295", "vsock:4294967295:2",
     "vsock:1:-1", "vsock:-1:2", "vsock:1:2:3",
     "acceptfd:1", "acceptfd", "acceptfd:", "acceptfd:-1", "acceptfd:4294967296",
     "acceptfd:4294967295",
     "tcp", "TCP:5555", " tcp:5555", "Jdwp:1", "devraw:/dev/tty", "dev-raw", "udp:1",
     ":1"}

\* Every text handed to a parse.
Inputs ==
    {Chars(x) : x \in TestTexts}
    \cup {Chars(tag) \o Chars(":") \o r : tag \in Tags, r \in Remainders(MaxParts)}

PortSamples == {0, 5555, U16Max}

Ipv4Samples == [1..4 -> {0, U8Max}] \cup {<<127, 0, 0, 1>>, <<1, 2, 3, 4>>}

Ipv6Samples ==
    [1..8 -> {0, U16Max}]
    \cup {<<0, 0, 0, 0, 0, 0, 0, 1>>, <<1, 0, 0, 2, 0, 0, 0, 3>>,
          <<4369, 8738, 13107, 17476, 21845, 26214, 30583, 34952>>,
          <<0, 0, 0, 0, 0, U16Max, 258, 772>>}

IpSamples == {IpV4(a) : a \in Ipv4Samples} \cup {IpV6(a) : a \in Ipv6Samples}

U32Samples == {U32(0, 0), U32(0, 1), U32(0, 1234), U32(1, 0), U32Max}

StringSamples == {Chars(x) : x \in {"", "socket", "a:b"}}

\* Paths, one of them with a byte that is no valid UTF-8.
PathSamples ==
    {Chars(x) : x \in {"", "/dev/tty", "/path/to/socket"}}
    \cup {Chars("/tmp/") \o <<InvalidByte>>}

FieldSamples(fty) ==
    CASE fty = "u32" -> U32Samples
      [] fty = "PathBuf" -> PathSamples
      [] OTHER -> StringSamples

\* The values of family type t that are constructed.
FamilyValues(t) ==
    CASE t = "Tcp" ->
           {Tcp(ip, port) : ip \in {None} \cup {Some(a) : a \in IpSamples},
                            port \in {None} \cup {Some(n) : n \in PortSamples}}
      [] t = "DevRaw" -> {<<p>> : p \in PathSamples}
      [] OTHER ->
           LET fields == StructFields(t) IN
           IF Len(fields) = 1 THEN {<<a>> : a \in FieldSamples(fields[1])}
           ELSE {<<a, b>> : a \in FieldSamples(fields[1]), b \in FieldSamples(fields[2])}

FamilyTypes == {Variants[i] : i \in 1..Len(Variants)}

Union == "AdbSocketFamilies"

\* The most addresses one lookup answers with.
MaxCandidates == 2

\* The addresses a lookup may answer with.
HostIps == {IpV4(<<127, 0, 0, 1>>), IpV4(<<1, 2, 3, 4>>),
            IpV6(<<0, 0, 0, 0, 0, 0, 0, 1>>), IpV6(<<1, 0, 0, 2, 0, 0, 0, 3>>)}

\* Every answer of a lookup: a failure, or up to MaxCandidates addresses in
\* any order (none at all included).
LookupAnswers ==
    {LookupFailed}
    \cup UNION {{LookupFound(ips) : ips \in [1..n -> HostIps]} : n \in 0..MaxCandidates}

\* The texts of test_tcp_resolve, texts that Tcp's parse accepts, and texts
\* that are addresses without the tag.
HostTexts ==
    {Chars(x) : x \in
        {"localhost:5555", "localhost", "local-host", "local-host:5555", "localhost:",
         "abcd", "a.b.c.d", "a.b.c.d:p",
         "tcp:127.0.0.1:5555", "tcp:5555", "tcp:[::1]", "tcp:127.0.0.1", "tcp:abcd",
         "tcp:localhost:5555", "tcp:", "",
         "127.0.0.1:5555", "127.0.0.1", "[::1]:5555", "::1", "localhost:65536",
         "localhost:0"}}

UnionValues == UNION {{Variant(t, v) : v \in FamilyValues(t)} : t \in FamilyTypes}

(***************************************************************************)
(* The state machine: a text is parsed and the value formatted back, or a  *)
(* value is formatted and the text parsed back.                            *)
(*   pc = "text":        input holds a text, nothing was done yet          *)
(*   pc = "parsed":      result holds T::from_str(input), T = ty           *)
(*   pc = "reformatted": output holds the Display of result.val            *)
(*   pc = "value":       value holds a value of type ty                    *)
(*   pc = "formatted":   output holds the Display of value                 *)
(*   pc = "reparsed":    result holds T::from_str(output), T = ty          *)
(***************************************************************************)

InitText ==
    /\ pc = "text"
    /\ input \in Inputs
    /\ value = None
    /\ ty = "&str"
    /\ result = Err(NoError)
    /\ output = <<>>
    /\ calls = <<>>

InitValue ==
    /\ pc = "value"
    /\ input = <<>>
    /\ \E t \in FamilyTypes \cup {Union} :
          /\ ty = t
          /\ value \in (IF t = Union THEN UnionValues ELSE FamilyValues(t))
    /\ result = Err(NoError)
    /\ output = <<>>
    /\ calls = <<>>

\* Tcp::from_host is about to be applied to a text.
InitHost ==
    /\ pc = "host"
    /\ input \in HostTexts
    /\ value = None
    /\ ty = "&str"
    /\ result = Err(NoError)
    /\ output = <<>>
    /\ calls = <<>>

Init == InitText \/ InitValue \/ InitHost

\* The text a parse is applied to.
Text == IF pc = "text" THEN input ELSE output

\* The value a Display is applied to.
Self == IF pc = "value" THEN value ELSE result.val

\* A parse as type t is applied to a fresh text, or to the text that the
\* Display of a value of type t produced.
CanParse(t) == pc = "text" \/ (pc = "formatted" /\ ty = t)

\* A Display is applied to a constructed value of type t, or to the value a
\* parse as type t returned.
CanFmt(t) == (pc = "value" /\ ty = t) \/ (pc = "parsed" /\ ty = t /\ result.ok)

Parsed(t, r) ==
    /\ result' = r
    /\ ty' = t
    /\ pc' = IF pc = "text" THEN "parsed" ELSE "reparsed"
    /\ UNCHANGED <<input, value, output, calls>>

Formatted(text) ==
    /\ output' = text
    /\ pc' = IF pc = "value" THEN "formatted" ELSE "reformatted"
    /\ UNCHANGED <<input, value, ty, result, calls>>

\* "...".parse::<Tcp>()
ParseTcp == CanParse("Tcp") /\ Parsed("Tcp", Tcp_from_str(Text))

\* "...".parse::<DevRaw>()
ParseDevRaw == CanParse("DevRaw") /\ Parsed("DevRaw", DevRaw_from_str(Text))

\* "...".parse::<T>() for a struct T that derives AdbSocketFamily
ParseDerived ==
    \E i \in 1..Len(DerivedStructs) :
        /\ CanParse(DerivedStructs[i])
        /\ Parsed(DerivedStructs[i], impl_from_str(DerivedStructs[i], Text))

\* "...".parse::<AdbSocketFamilies>()
ParseUnion == CanParse(Union) /\ Parsed(Union, AdbSocketFamilies_from_str(Text))

\* Tcp::to_string()
FmtTcp == CanFmt("Tcp") /\ Formatted(Tcp_fmt(Self))

\* DevRaw::to_string()
FmtDevRaw == CanFmt("DevRaw") /\ Formatted(DevRaw_fmt(Self))

\* T::to_string() for a struct T that derives AdbSocketFamily
FmtDerived ==
    \E i \in 1..Len(DerivedStructs) :
        /\ CanFmt(DerivedStructs[i])
        /\ Formatted(impl_display(DerivedStructs[i], Self))

\* AdbSocketFamilies::to_string()
FmtUnion == CanFmt(Union) /\ Formatted(AdbSocketFamilies_fmt(Self))

\* from_host going on to the resolution whatever the literal parse returned.
FromHostParse_AlwaysResolve ==
    /\ pc = "host"
    /\ result' = Tcp_from_str(input)
    /\ pc' = "host_resolve"
    /\ ty' = "Tcp"
    /\ UNCHANGED <<input, value, output, calls>>

\* Tcp::from_host: host.parse(), the literal parse
FromHostParse ==
    /\ pc = "host"
    /\ result' = Tcp_from_str(input)
    /\ pc' = IF Tcp_from_str(input).ok THEN "host_done" ELSE "host_resolve"
    /\ ty' = "Tcp"
    /\ UNCHANGED <<input, value, output, calls>>

\* One run of Tcp::resolve on the text host, whose to_socket_addrs() returned
\* addrs, leaving from_host at the position next when it fails.
Resolved(host, addrs, r, next) ==
    /\ calls' = Append(calls, [text |-> host, addrs |-> addrs])
    /\ result' = r
    /\ pc' = IF r.ok THEN "host_done" ELSE next
    /\ UNCHANGED <<input, value, ty, output>>

ResolveWith(host, addrs) == Resolved(host, addrs, Tcp_resolve(host, addrs), "host_retry")

RetryWith(host, addrs) ==
    Resolved(host, addrs, FromHostRetried(result.err, Tcp_resolve(host, addrs)), "host_done")

\* Tcp::from_host: Self::resolve(host), after the literal parse failed
FromHostResolve ==
    /\ pc = "host_resolve"
    /\ \E os \in LookupAnswers : ResolveWith(input, to_socket_addrs(input, os))

\* Tcp::from_host: Self::resolve(&format!("{host}:0")), after the first
\* resolution failed
FromHostRetry ==
    /\ pc = "host_retry"
    /\ \E os \in LookupAnswers :
          RetryWith(input \o Chars(":0"), to_socket_addrs(input \o Chars(":0"), os))

Next ==
    \/ FromHostParse
    \/ FromHostResolve
    \/ FromHostRetry
    \/ ParseTcp
    \/ ParseDevRaw
    \/ ParseDerived
    \/ ParseUnion
    \/ FmtTcp
    \/ FmtDevRaw
    \/ FmtDerived
    \/ FmtUnion

Spec == Init /\ [][Next]_vars

(***************************************************************************)
(* Properties                                                              *)
(***************************************************************************)

\* The text the last parse was applied to.
ParsedText == IF pc = "parsed" THEN input ELSE output

\* The value the last Display was applied to.
FormattedValue == IF pc = "formatted" THEN value ELSE result.val

AfterParse(t) == pc \in {"parsed", "reparsed"} /\ ty = t
AfterFmt(t) == pc \in {"formatted", "reformatted"} /\ ty = t

\* The Tcp value with ip and port both absent.
Sentinel == Tcp(None, None)

Loopback6 == <<0, 0, 0, 0, 0, 0, 0, 1>>

\* A non-empty text of decimal digits only.
DigitsOnly(s) == Len(s) > 0 /\ \A i \in 1..Len(s) : s[i] \in {HexDigits[k] : k \in 1..10}

\* C1: round trip. For every value v of every family type other than the Tcp
\* value with ip and port both absent, parsing the text that the Display of v
\* produced, as the same type, succeeds and returns v.
C1_RoundTrip ==
    (pc = "reparsed" /\ ty \in FamilyTypes /\ ~(ty = "Tcp" /\ value = Sentinel))
        => (result.ok /\ result.val = value)

\* The round trip does hold for every value whose path, if it has one, is
\* valid Unicode.
RoundTripOfUnicode ==
    (/\ pc = "reparsed"
     /\ ty \in FamilyTypes
     /\ ~(ty = "Tcp" /\ value = Sentinel)
     /\ ~(ty \in {"LocalFileSystem", "Dev", "DevRaw"}
          /\ \E i \in 1..Len(value[1]) : value[1][i] = InvalidByte))
        => (result.ok /\ result.val = value)

\* C2: Tcp::from_str never returns the value with ip and port both absent: a
\* successful parse as Tcp yields a value with at least one of ip and port
\* present, and the parses of "" and of "tcp:" fail.
C2_ParseNeverSentinel ==
    AfterParse("Tcp") =>
        /\ result.ok => (result.val.ip # None \/ result.val.port # None)
        /\ ParsedText \in {<<>>, Chars("tcp:")} => ~result.ok

C2_Witness ==
    /\ pc = "parsed"
    /\ ty = "Tcp"
    /\ input = Chars("tcp:")
    /\ ~result.ok

\* The text the claim gives for a Tcp value, case by case.
TcpTextOf(v) ==
    CASE v.ip # None /\ v.port # None /\ v.ip[1].v = 4 ->
           Chars("tcp:") \o fmt_Ipv4Addr(v.ip[1].a) \o Chars(":") \o FmtInt(v.port[1], 10)
      [] v.ip # None /\ v.port # None /\ v.ip[1].v = 6 ->
           Chars("tcp:[") \o fmt_Ipv6Addr(v.ip[1].a) \o Chars("]:") \o FmtInt(v.port[1], 10)
      [] v.ip # None /\ v.port = None /\ v.ip[1].v = 4 ->
           Chars("tcp:") \o fmt_Ipv4Addr(v.ip[1].a)
      [] v.ip # None /\ v.port = None /\ v.ip[1].v = 6 ->
           Chars("tcp:[") \o fmt_Ipv6Addr(v.ip[1].a) \o Chars("]")
      [] v.ip = None /\ v.port # None ->
           Chars("tcp:") \o FmtInt(v.port[1], 10)
      [] v.ip = None /\ v.port = None -> <<>>

\* C3: the Display of a Tcp value is "tcp:a.b.c.d:port", "tcp:[addr]:port",
\* "tcp:a.b.c.d", "tcp:[addr]" or "tcp:port" according to which fields are
\* present and the kind of the address, and the empty text exactly for the
\* value with both fields absent.
C3_TcpFormat ==
    AfterFmt("Tcp") =>
        /\ output = TcpTextOf(FormattedValue)
        /\ (output = <<>>) <=> (FormattedValue = Sentinel)

C3_Witness ==
    /\ pc = "formatted"
    /\ ty = "Tcp"
    /\ value = Tcp_new(IpV6(Loopback6), 5555)
    /\ output = Chars("tcp:[::1]:5555")

\* The classification the claim gives for the text r after "tcp:": [ok, val].
\* A bare unsigned 16-bit integer is a text of decimal digits whose value is
\* at most 65535.
TcpClassOf(r) ==
    IF DigitsOnly(r) /\ parse_u16(r).ok
        THEN [ok |-> TRUE, val |-> Tcp(None, Some(parse_u16(r).val))]
    ELSE IF parse_SocketAddr(r).ok
        THEN [ok |-> TRUE, val |-> Tcp(Some(parse_SocketAddr(r).val.ip),
                                       Some(parse_SocketAddr(r).val.port))]
    ELSE IF parse_Ipv4Addr(r).ok
        THEN [ok |-> TRUE, val |-> Tcp(Some(IpV4(parse_Ipv4Addr(r).val)), None)]
    ELSE IF Len(r) >= 2 /\ r[1] = "[" /\ r[Len(r)] = "]"
            /\ parse_Ipv6Addr(SubSeq(r, 2, Len(r) - 1)).ok
        THEN [ok |-> TRUE,
              val |-> Tcp(Some(IpV6(parse_Ipv6Addr(SubSeq(r, 2, Len(r) - 1)).val)), None)]
    ELSE [ok |-> FALSE, val |-> Sentinel]

\* C4: Tcp::from_str classifies the non-empty text after "tcp:" as a bare
\* unsigned 16-bit integer (port only), else an ip:port socket address (both
\* fields), else a dotted IPv4 address (host only), else a bracketed IPv6
\* address (host only), and fails on every other text.
C4_TcpClassification ==
    (AfterParse("Tcp") /\ StartsWith(ParsedText, Chars("tcp:")) /\ Len(ParsedText) > 4)
        => /\ result.ok = TcpClassOf(Drop(ParsedText, 5)).ok
           /\ result.ok => result.val = TcpClassOf(Drop(ParsedText, 5)).val

\* The same classification with a '+' before the digits of a bare port
\* allowed, as <u16 as FromStr> allows it.
TcpClassificationWithSign ==
    (AfterParse("Tcp") /\ StartsWith(ParsedText, Chars("tcp:")) /\ Len(ParsedText) > 4
     /\ ~(ParsedText[5] = "+"))
        => /\ result.ok = TcpClassOf(Drop(ParsedText, 5)).ok
           /\ result.ok => result.val = TcpClassOf(Drop(ParsedText, 5)).val

\* r is IPv6 text without brackets, alone or followed by ':' and a decimal port.
UnbracketedIpv6(r) ==
    \/ parse_Ipv6Addr(r).ok
    \/ \E i \in 1..Len(r) :
          /\ r[i] = ":"
          /\ DigitsOnly(Drop(r, i + 1))
          /\ parse_Ipv6Addr(SubSeq(r, 1, i - 1)).ok

\* C5: Tcp::from_str fails on every text whose host part is IPv6 text without
\* brackets, with or without a port after it, while "tcp:[::1]" parses to the
\* host-only value of ::1 and is formatted back to "tcp:[::1]".
C5_Ipv6NeedsBrackets ==
    /\ (AfterParse("Tcp") /\ StartsWith(ParsedText, Chars("tcp:"))
        /\ UnbracketedIpv6(Drop(ParsedText, 5)))
           => ~result.ok
    /\ (pc \in {"parsed", "reformatted"} /\ ty = "Tcp" /\ input = Chars("tcp:[::1]"))
           => (result.ok /\ result.val = Tcp_from_ipv6(Loopback6))
    /\ (pc = "reformatted" /\ ty = "Tcp" /\ input = Chars("tcp:[::1]"))
           => output = Chars("tcp:[::1]")

C5_Witness ==
    /\ pc = "parsed"
    /\ ty = "Tcp"
    /\ input = Chars("tcp:::1:5555")
    /\ UnbracketedIpv6(Drop(input, 5))
    /\ ~result.ok

\* The family types whose parse accepts the text s.
Accepting(s) == {t \in FamilyTypes : from_str(t, s).ok}

\* C6: tag exclusivity. At most one family type's parse accepts a text, and
\* when family A's parse accepts it the parse as AdbSocketFamilies returns the
\* variant of A carrying the value A's parse returns.
C6_TagExclusivity ==
    AfterParse(Union) =>
        /\ Cardinality(Accepting(ParsedText)) <= 1
        /\ \A t \in Accepting(ParsedText) :
              /\ result.ok
              /\ variant_of(result.val) = t
              /\ inner_of(result.val) = from_str(t, ParsedText).val

C6_Witness ==
    /\ pc = "parsed"
    /\ ty = Union
    /\ input = Chars("vsock:1:2")
    /\ Accepting(input) = {"Vsock"}
    /\ result.ok
    /\ result.val = Variant("Vsock", <<U32(0, 1), U32(0, 2)>>)

EightMembers == {"Tcp", "LocalAbstract", "LocalReserved", "LocalFileSystem", "Dev",
                 "Jdwp", "Vsock", "AcceptFd"}

\* C7: DevRaw is not a member of the union. AdbSocketFamilies has exactly the eight members Tcp,
\* LocalAbstract, LocalReserved, LocalFileSystem, Dev, Jdwp, Vsock and
\* AcceptFd, so every value its parse returns has one of those as its
\* variant, never DevRaw, and its parse fails on every text that begins
\* "dev-raw:".
C7_DevRawNotInUnion ==
    AfterParse(Union) =>
        /\ result.ok => variant_of(result.val) \in EightMembers
        /\ StartsWith(ParsedText, Chars("dev-raw:")) => ~result.ok

\* What the enum of socket.rs does instead: DevRaw is its sixth variant, and
\* the parse of every text that begins "dev-raw:", which DevRaw's parse alone
\* accepts, returns the DevRaw variant carrying the value DevRaw's parse returns.
DevRawInUnion ==
    AfterParse(Union) =>
        /\ result.ok => variant_of(result.val) \in EightMembers \cup {"DevRaw"}
        /\ StartsWith(ParsedText, Chars("dev-raw:")) =>
              /\ Accepting(ParsedText) = {"DevRaw"}
              /\ result.ok
              /\ result.val = Variant("DevRaw", DevRaw_from_str(ParsedText).val)

\* The first variant, in declaration order, whose type's parse accepts s.
FirstAccepting(s) ==
    Variants[CHOOSE i \in 1..Len(Variants) :
                /\ from_str(Variants[i], s).ok
                /\ \A j \in 1..(i - 1) : ~from_str(Variants[j], s).ok]

\* C8: union dispatch. The parse as AdbSocketFamilies returns the first
\* member, in declaration order, whose parse succeeds, wrapped in that
\* member's variant; when every member fails it returns a parse error whose
\* value is the text, whose target type is AdbSocketFamilies and which has
\* no cause.
C8_UnionDispatch ==
    AfterParse(Union) =>
        IF Accepting(ParsedText) # {}
        THEN /\ result.ok
             /\ result.val = Variant(FirstAccepting(ParsedText),
                                     from_str(FirstAccepting(ParsedText), ParsedText).val)
        ELSE /\ ~result.ok
             /\ result.err = AdbError_Parse(ParsedText, "AdbSocketFamilies", None)

C8_Witness ==
    /\ pc = "parsed"
    /\ ty = Union
    /\ input = Chars("vsock:1")
    /\ Accepting(input) = {}
    /\ ~result.ok
    /\ result.err.target_type = "AdbSocketFamilies"

\* C9: union formatting delegates. The Display of a union value is the
\* Display of its active member, and so parsing it back as the union returns
\* the value, for every union value whose payload is not the Tcp value with
\* ip and port both absent.
C9_UnionFormatDelegates ==
    /\ AfterFmt(Union) =>
          output = fmt(variant_of(FormattedValue), inner_of(FormattedValue))
    /\ (pc = "reparsed" /\ ty = Union
        /\ ~(variant_of(value) = "Tcp" /\ inner_of(value) = Sentinel))
           => (result.ok /\ result.val = value)

\* The union's round trip does hold for every payload whose path, if it has
\* one, is valid Unicode.
UnionRoundTripOfUnicode ==
    (/\ pc = "reparsed"
     /\ ty = Union
     /\ ~(variant_of(value) = "Tcp" /\ inner_of(value) = Sentinel)
     /\ ~(variant_of(value) \in {"LocalFileSystem", "Dev", "DevRaw"}
          /\ \E i \in 1..Len(inner_of(value)[1]) : inner_of(value)[1][i] = InvalidByte))
        => (result.ok /\ result.val = value)

U16MaxText == Chars("65535")
U16OverText == Chars("65536")
U32MaxText == Chars("4294967295")
U32OverText == Chars("4294967296")

\* The text after the last ':' of s (all of s when it has none).
RECURSIVE AfterLastColon(_)
AfterLastColon(s) ==
    IF FindFrom(s, ":", 1) = 0 THEN s
    ELSE AfterLastColon(Drop(s, FindFrom(s, ":", 1) + 1))

\* The text after the tag and its ':'.
AfterTag(s) == Drop(s, FindFrom(s, ":", 1) + 1)

\* The texts at the numeric positions of a text s that carries the tag of
\* type t: the port of a Tcp text (all of the remainder, or what follows its
\* last ':'), the pid or fd, the cid and the port of a Vsock text.
NumericTexts(t, s) ==
    CASE t = "Tcp" -> {AfterTag(s), AfterLastColon(AfterTag(s))}
      [] t = "Vsock" -> {split_once(AfterTag(s), ":").left, split_once(AfterTag(s), ":").right}
      [] OTHER -> {AfterTag(s)}

NumericTypes == {"Tcp", "Jdwp", "Vsock", "AcceptFd"}

\* The tag of family type t in the wire grammar.
TagOf(t) == IF t = "DevRaw" THEN Chars("dev-raw") ELSE to_lowercase(Chars(t))

HasTag(t, s) == StartsWith(s, TagOf(t) \o Chars(":"))

\* C10: numeric boundary. A Tcp port of 65535 parses and 65536 fails; a pid,
\* fd, cid or vsock port of 4294967295 parses and 4294967296 fails; a numeral
\* with a leading '-' fails in every numeric position of every family.
C10_NumericBoundary ==
    \A t \in NumericTypes :
        (AfterParse(t) /\ HasTag(t, ParsedText)) =>
            /\ (\E n \in NumericTexts(t, ParsedText) : Len(n) > 0 /\ n[1] = "-")
                  => ~result.ok
            /\ (t = "Tcp" /\ U16OverText \in NumericTexts(t, ParsedText)) => ~result.ok
            /\ (t # "Tcp" /\ U32OverText \in NumericTexts(t, ParsedText)) => ~result.ok
            /\ (t = "Tcp" /\ AfterTag(ParsedText) = U16MaxText)
                  => (result.ok /\ result.val = Tcp_from_port(U16Max))
            /\ (t = "Tcp" /\ ParsedText = Chars("tcp:127.0.0.1:65535"))
                  => (result.ok /\ result.val = Tcp_new(IpV4(<<127, 0, 0, 1>>), U16Max))
            /\ (t = "Tcp" /\ ParsedText = Chars("tcp:[::1]:65535"))
                  => (result.ok /\ result.val = Tcp_new(IpV6(Loopback6), U16Max))
            /\ (t \in {"Jdwp", "AcceptFd"} /\ AfterTag(ParsedText) = U32MaxText)
                  => (result.ok /\ result.val = <<U32Max>>)
            /\ (t = "Vsock" /\ AfterTag(ParsedText) = U32MaxText \o Chars(":5555"))
                  => (result.ok /\ result.val = <<U32Max, U32(0, 5555)>>)
            /\ (t = "Vsock" /\ AfterTag(ParsedText) = Chars("1:") \o U32MaxText)
                  => (result.ok /\ result.val = <<U32(0, 1), U32Max>>)

C10_Witness ==
    /\ pc = "parsed"
    /\ ty = "Vsock"
    /\ input = Chars("vsock:4294967296:5555")
    /\ U32OverText \in NumericTexts("Vsock", input)
    /\ ~result.ok

\* The text of the port of a Tcp text whose remainder is r: all of r when it
\* has no ':', otherwise what follows its last ':'.
TcpPortText(r) == IF FindFrom(r, ":", 1) = 0 THEN r ELSE AfterLastColon(r)

\* Decimal digits after one optional '+'.
SignedDigits(s) == DigitsOnly(s) \/ (Len(s) > 1 /\ s[1] = "+" /\ DigitsOnly(Tail(s)))

\* C11: numeric fields are unsigned decimal digits only. A parse fails
\* whenever the text of a numeric field (the Tcp port, the Jdwp pid, the
\* AcceptFd fd, the Vsock cid or port) is empty or has a character that is no
\* decimal digit, a leading '+' included.
C11_DigitsOnly ==
    /\ (AfterParse("Tcp") /\ result.ok /\ result.val.port # None)
          => DigitsOnly(TcpPortText(AfterTag(ParsedText)))
    /\ \A t \in {"Jdwp", "AcceptFd", "Vsock"} :
          (AfterParse(t) /\ HasTag(t, ParsedText)
           /\ \E n \in NumericTexts(t, ParsedText) : ~DigitsOnly(n))
              => ~result.ok

\* What the code does instead: every numeric field is decimal digits after
\* one optional '+' (the port that follows a host takes no '+').
NumeralsWithSign ==
    /\ (AfterParse("Tcp") /\ result.ok /\ result.val.port # None)
          => /\ SignedDigits(TcpPortText(AfterTag(ParsedText)))
             /\ result.val.ip # None => DigitsOnly(TcpPortText(AfterTag(ParsedText)))
    /\ \A t \in {"Jdwp", "AcceptFd", "Vsock"} :
          (AfterParse(t) /\ HasTag(t, ParsedText)
           /\ \E n \in NumericTexts(t, ParsedText) : ~SignedDigits(n))
              => ~result.ok

StringAndPathTypes == {"LocalAbstract", "LocalReserved", "LocalFileSystem", "Dev", "DevRaw"}

\* C12: the string and path families (LocalAbstract, LocalReserved,
\* LocalFileSystem, Dev, DevRaw) take the text after "tag:" verbatim as the
\* field, the empty text and text with ':' in it included: the parse of
\* "tag:" + t succeeds with field t, and the Display of the parsed value
\* writes "tag:" + t again.
C12_VerbatimField ==
    \A t \in StringAndPathTypes :
        /\ (pc = "parsed" /\ ty = t /\ HasTag(t, input))
              => (result.ok /\ result.val = <<AfterTag(input)>>)
        /\ (pc = "reformatted" /\ ty = t) => output = input

C12_Witness ==
    /\ pc = "reformatted"
    /\ ty = "LocalAbstract"
    /\ input = Chars("localabstract:a:5555")
    /\ result.val = <<Chars("a:5555")>>
    /\ output = input

\* The text after "vsock:", split at its first ':'.
VsockParts(s) == split_once(AfterTag(s), ":")

\* C13: the parse of a Vsock splits the text after "vsock:" once, at its
\* first ':', into the cid on the left and the port, all of the right part:
\* "vsock:c:p" gives Vsock{cid: c, port: p}; a remainder with no ':', an
\* empty cid, an empty port and a right part with a further ':' all fail.
C13_VsockSplit ==
    (AfterParse("Vsock") /\ HasTag("Vsock", ParsedText)) =>
        /\ ~VsockParts(ParsedText).found => ~result.ok
        /\ VsockParts(ParsedText).left = <<>> => ~result.ok
        /\ VsockParts(ParsedText).right = <<>> => ~result.ok
        /\ FindFrom(VsockParts(ParsedText).right, ":", 1) # 0 => ~result.ok
        /\ (/\ VsockParts(ParsedText).found
            /\ parse_u32(VsockParts(ParsedText).left).ok
            /\ parse_u32(VsockParts(ParsedText).right).ok)
              => /\ result.ok
                 /\ result.val = <<parse_u32(VsockParts(ParsedText).left).val,
                                   parse_u32(VsockParts(ParsedText).right).val>>

C13_Witness ==
    /\ pc = "parsed"
    /\ ty = "Vsock"
    /\ input = Chars("vsock:65535:5555")
    /\ result.ok
    /\ result.val = <<U32(0, 65535), U32(0, 5555)>>

\* A Vsock text with a further ':' in its right part is parsed and refused.
C13_WitnessFurtherColon ==
    /\ pc = "parsed"
    /\ ty = "Vsock"
    /\ input = Chars("vsock:1:2:3")
    /\ ~result.ok

\* C17: every family's parse requires its exact lowercase tag and a ':' at
\* the very start of the text. A text with no ':', with a different or
\* differently cased tag, with leading whitespace or with another family's
\* tag fails with a parse error.
C17_TagRequired ==
    \A t \in FamilyTypes :
        (AfterParse(t) /\ ~HasTag(t, ParsedText)) =>
            /\ ~result.ok
            /\ result.err.source_type = "&str"
            /\ result.err.target_type = t

C17_Witness ==
    /\ pc = "parsed"
    /\ ty = "Jdwp"
    /\ input = Chars("Jdwp:1")
    /\ ~HasTag("Jdwp", input)
    /\ ~result.ok

\* C18: every parse error of a family's parse or of the union's parse has as
\* its value the complete text handed to the parse, and as its target type
\* the name of the type being constructed, whichever step failed.
C18_ErrorCarriesInput ==
    \A t \in FamilyTypes \cup {Union} :
        (AfterParse(t) /\ ~result.ok) =>
            /\ result.err.value = ParsedText
            /\ result.err.target_type = t

Bracketed(r) == Len(r) >= 2 /\ r[1] = "[" /\ r[Len(r)] = "]"

\* The value and the target type of the error of a failed parse as type t of
\* the text s, by the step that failed.
ErrorValueOf(t, s) ==
    CASE t = Union \/ ~HasTag(t, s) \/ (t = "Tcp" /\ AfterTag(s) = <<>>) -> s
      [] t = "Tcp" /\ Bracketed(AfterTag(s)) -> SubSeq(AfterTag(s), 2, Len(AfterTag(s)) - 1)
      [] t = "Vsock" /\ VsockParts(s).found -> VsockParts(s).right
      [] OTHER -> AfterTag(s)

ErrorTargetOf(t, s) ==
    CASE t = Union \/ ~HasTag(t, s) \/ (t = "Tcp" /\ AfterTag(s) = <<>>) -> t
      [] t = "Tcp" -> "Ipv6Addr"
      [] OTHER -> "u32"

\* C18 as amended: a parse error has the complete text and the name of the
\* type being parsed when the tag is missing (for Tcp also when nothing
\* follows the tag) and when the union's parse fails. Otherwise it has the
\* text and the type of the step that failed: for Tcp the text after "tcp:",
\* without its brackets when it is bracketed, and Ipv6Addr; for Jdwp and
\* AcceptFd the text after the tag and u32; for Vsock the text after "vsock:"
\* when that has no ':', else the text after its first ':', and u32.
C18_ErrorOfFailingStep ==
    \A t \in FamilyTypes \cup {Union} :
        (AfterParse(t) /\ ~result.ok) =>
            /\ result.err.value = ErrorValueOf(t, ParsedText)
            /\ result.err.target_type = ErrorTargetOf(t, ParsedText)
            /\ result.err.source_type = "&str"

C18_Witness ==
    /\ pc = "parsed"
    /\ ty = "Tcp"
    /\ input = Chars("tcp:[gggg::]")
    /\ ~result.ok
    /\ result.err.value = Chars("gggg::")
    /\ result.err.target_type = "Ipv6Addr"

\* The candidate a resolution prefers: the first IPv4 one if there is any,
\* otherwise the first one.
Preferred(addrs) ==
    IF \E i \in 1..Len(addrs) : addrs[i].ip.v = 4
    THEN addrs[CHOOSE i \in 1..Len(addrs) :
                   /\ addrs[i].ip.v = 4
                   /\ \A j \in 1..(i - 1) : addrs[j].ip.v # 4]
    ELSE addrs[1]

\* from_host has just returned from its first resolution.
AfterFirstResolve == pc \in {"host_done", "host_retry"} /\ Len(calls) = 1

\* from_host has returned after its second resolution.
AfterRetry == pc = "host_done" /\ Len(calls) = 2

\* C14: resolution preference. For every non-empty candidate sequence the
\* resolver returns, the resolved Tcp value has the ip and the port of the
\* first IPv4 candidate if there is one and otherwise of the first candidate
\* (the retry keeps the ip only); for an empty candidate sequence the
\* resolution returns a parse error.
C14_ResolutionPreference ==
    /\ (AfterFirstResolve /\ calls[1].addrs.ok) =>
          IF calls[1].addrs.val # <<>>
          THEN /\ result.ok
               /\ result.val = Tcp(Some(Preferred(calls[1].addrs.val).ip),
                                   Some(Preferred(calls[1].addrs.val).port))
          ELSE /\ ~result.ok
               /\ result.err.target_type = "SocketAddr"
               /\ result.err.value = calls[1].text
    /\ (AfterRetry /\ calls[2].addrs.ok) =>
          IF calls[2].addrs.val # <<>>
          THEN /\ result.ok
               /\ result.val = Tcp(Some(Preferred(calls[2].addrs.val).ip), None)
          ELSE ~result.ok

C14_Witness ==
    /\ AfterFirstResolve
    /\ input = Chars("localhost:5555")
    /\ calls[1].addrs.ok
    /\ Len(calls[1].addrs.val) = 2
    /\ calls[1].addrs.val[1].ip = IpV6(Loopback6)
    /\ calls[1].addrs.val[2].ip = IpV4(<<127, 0, 0, 1>>)
    /\ result.ok
    /\ result.val = Tcp_new(IpV4(<<127, 0, 0, 1>>), 5555)

\* C15: the fast path of from_host. from_host(text) first tries the pure
\* parse of text as a Tcp; whenever that succeeds from_host returns that very
\* value and the resolver is never invoked. The parse of a Tcp never invokes
\* the resolver, so a host name such as "tcp:abcd" is refused by it.
C15_FastPath ==
    /\ pc \in {"host", "host_resolve"} => calls = <<>>
    /\ pc = "host_resolve" => (~Tcp_from_str(input).ok /\ ~result.ok)
    /\ (pc \in {"host_done", "host_retry"} /\ Tcp_from_str(input).ok)
          => (pc = "host_done" /\ calls = <<>> /\ result.ok
              /\ result.val = Tcp_from_str(input).val)
    /\ AfterParse("Tcp") =>
          /\ calls = <<>>
          /\ ParsedText \in {Chars("tcp:abcd"), Chars("tcp:a")} => ~result.ok

C15_Witness ==
    /\ pc = "host_done"
    /\ input = Chars("tcp:127.0.0.1:5555")
    /\ calls = <<>>
    /\ result.ok
    /\ result.val = Tcp_new(IpV4(<<127, 0, 0, 1>>), 5555)

\* A resolution succeeded: the resolver returned at least one candidate.
ResolutionOk(call) == call.addrs.ok /\ call.addrs.val # <<>>

\* What C16 says of every from_host, but for the cause of the error.
RetryOutcome ==
    /\ pc = "host_retry" =>
          (Len(calls) = 1 /\ ~Tcp_from_str(input).ok /\ ~ResolutionOk(calls[1]))
    /\ (pc = "host_done" /\ Len(calls) = 1) => (ResolutionOk(calls[1]) /\ result.ok)
    /\ AfterRetry =>
          /\ ~Tcp_from_str(input).ok
          /\ calls[1].text = input
          /\ ~ResolutionOk(calls[1])
          /\ calls[2].text = input \o Chars(":0")
          /\ ResolutionOk(calls[2]) =>
                /\ result.ok
                /\ result.val = Tcp(Some(Preferred(calls[2].addrs.val).ip), None)
          /\ ~ResolutionOk(calls[2]) =>
                /\ ~result.ok
                /\ result.err.value = input
                /\ result.err.source_type = "&str"
                /\ result.err.target_type \in {"std::vec::IntoIter<SocketAddr>", "SocketAddr"}

RetrySucceeds ==
    /\ AfterRetry
    /\ input = Chars("localhost")
    /\ result.ok
    /\ result.val = Tcp_from_ipv4(<<127, 0, 0, 1>>)

\* The text ends in a ':' and a decimal port.
HasPortSuffix(s) == rsplit_once(s, ":").found /\ DigitsOnly(rsplit_once(s, ":").right)

\* C19: from_host makes the second resolution, of text + ":0", only when
\* text has no port suffix; when text has a port and its resolution fails,
\* the resolver is invoked exactly once and the failure is returned without a
\* retry. In every run the resolver is invoked at most twice.
C19_RetryOnlyWithoutPort ==
    /\ Len(calls) <= 2
    /\ Len(calls) = 2 => ~HasPortSuffix(input)
    /\ (pc = "host_done" /\ ~result.ok /\ ~Tcp_from_str(input).ok /\ HasPortSuffix(input))
          => Len(calls) = 1

\* What the code does: it resolves at most twice, and it does retry
\* whenever the first resolution fails, with or without a port in the text.
RetryWhateverThePort ==
    /\ Len(calls) <= 2
    /\ (pc = "host_done" /\ ~result.ok /\ ~Tcp_from_str(input).ok) => Len(calls) = 2

====
